---- MODULE Spec2Model ----
(***************************************************************************)
(* Mesh simplification by iterative edge collapse (quadric error metrics), *)
(* as implemented by MeshSimplifier in src/simplification-worker.js and    *)
(* driven by the worker's self.onmessage handler.                          *)
(*                                                                         *)
(* Indices are 1-based here (0-based in the source).  Arithmetic is exact: *)
(* input coordinates are integers, a stored position is the real position  *)
(* times PosScale (a power of two, so that midpoints stay integral), a     *)
(* quadric coefficient is twice its real value (a face's weight is its     *)
(* area, half the length of the cross product) and a cost is the real cost *)
(* times 2 * PosScale^2.  The input meshes have faces whose cross product  *)
(* has an integral length (planar z = 0 meshes and the axis-aligned cube), *)
(* and for them the source's double arithmetic is exact as well.           *)
(***************************************************************************)
EXTENDS Integers, Sequences, FiniteSets, TLC

VARIABLES
    pc,                 \* position of the request: "start", "loop", "rebuild",
                        \* "done" (complete posted), "failed" (error posted);
                        \* "idle" when the worker has no request
    positions,          \* e.data.positions, as a sequence of triangles of points
    targetReduction,    \* e.data.targetReduction, in percent
    vertices,           \* this.vertices
    faces,              \* this.faces
    edges,              \* this.edges
    originalFaceCount,  \* simplify: const originalFaceCount
    targetFaceCount,    \* simplify: const targetFaceCount
    collapsed,          \* simplify: let collapsed
    iteration,          \* simplify: let iteration
    exhausted,          \* simplify: the loop was left by the break of line 192
    result,             \* the triangles returned by buildGeometry
    posted,             \* the messages given to self.postMessage, in order
    wm,                 \* the WorkerManager of the page: workers, taskQueue, stats
    tasks,              \* the task objects made by executeTask, by task id
    timers              \* the pending setTimeout callbacks, as <<task, worker>>

(* the worker: one request to self.onmessage *)
workerVars == <<pc, positions, targetReduction, vertices, faces, edges,
                originalFaceCount, targetFaceCount, collapsed, iteration,
                exhausted, result, posted>>

(* the page: the WorkerManager and its tasks *)
hostVars == <<wm, tasks, timers>>

vars == <<workerVars, hostVars>>

-----------------------------------------------------------------------------
(* Bounds of the model *)

ScaleBits == 8
MaxStrip == 8
MaxDisjoint == 10
MaxPinned == 5
MaxCollapseCount == 200

PosScale == 2 ^ ScaleBits

(* Program constants *)
MinFaces == 4
BoundaryPenalty == 10
Infinity == 2147483647

-----------------------------------------------------------------------------
(* Small helpers *)

Max(a, b) == IF a >= b THEN a ELSE b
Min(a, b) == IF a <= b THEN a ELSE b

Contains(s, x) == \E i \in 1..Len(s) : s[i] = x

IndexSeq(n) == [i \in 1..n |-> i]

Isqrt(n) == CHOOSE k \in 0..n : k * k <= n /\ (k + 1) * (k + 1) > n

-----------------------------------------------------------------------------
(* Vector3 *)

SubVectors(a, b) == <<a[1] - b[1], a[2] - b[2], a[3] - b[3]>>
AddVectors(a, b) == <<a[1] + b[1], a[2] + b[2], a[3] + b[3]>>
CrossVectors(a, b) ==
    <<a[2] * b[3] - a[3] * b[2],
      a[3] * b[1] - a[1] * b[3],
      a[1] * b[2] - a[2] * b[1]>>
Dot(a, b) == a[1] * b[1] + a[2] * b[2] + a[3] * b[3]
VLength(a) == Isqrt(Dot(a, a))

(* target = (a + b) * 0.5, on scaled positions *)
Midpoint(a, b) ==
    <<(a[1] + b[1]) \div 2, (a[2] + b[2]) \div 2, (a[3] + b[3]) \div 2>>

-----------------------------------------------------------------------------
(* Quadric: <<a11, a12, a13, a14, a22, a23, a24, a33, a34, a44>>, doubled *)

ZeroQuadric == <<0, 0, 0, 0, 0, 0, 0, 0, 0, 0>>

FromPlane(a, b, c, d) ==
    <<a * a, a * b, a * c, a * d, b * b, b * c, b * d, c * c, c * d, d * d>>

QAdd(q, r) ==
    <<q[1] + r[1], q[2] + r[2], q[3] + r[3], q[4] + r[4], q[5] + r[5],
      q[6] + r[6], q[7] + r[7], q[8] + r[8], q[9] + r[9], q[10] + r[10]>>

QMultiplyScalar(q, s) ==
    <<q[1] * s, q[2] * s, q[3] * s, q[4] * s, q[5] * s,
      q[6] * s, q[7] * s, q[8] * s, q[9] * s, q[10] * s>>

(* [x y z 1] Q [x y z 1]^T at the scaled point p: the 1 is PosScale *)
Evaluate(q, p) ==
    LET x == p[1]
        y == p[2]
        z == p[3]
        w == PosScale
    IN  q[1] * x * x + 2 * q[2] * x * y + 2 * q[3] * x * z + 2 * q[4] * x * w
        + q[5] * y * y + 2 * q[6] * y * z + 2 * q[7] * y * w
        + q[8] * z * z + 2 * q[9] * z * w
        + q[10] * w * w

-----------------------------------------------------------------------------
(* Input meshes: sequences of triangles, a triangle being three points with *)
(* integer coordinates (a point of the extraction inputs may lie off such a *)
(* point by less than 10^-6).  positions.length is 9 * Len(triangles).      *)

Pt(x, y, z) == <<x, y, z>>

RotateTriangle(t, j) == [i \in 1..3 |-> t[((i - 1 + j) % 3) + 1]]

RotateAll(tris, j) == [i \in 1..Len(tris) |-> RotateTriangle(tris[i], j)]

ShiftSeq(s, k) == [i \in 1..Len(s) |-> s[((i - 1 + k) % Len(s)) + 1]]

(* a flat strip of n triangles in the plane z = 0 *)
StripTriangle(k) ==
    LET j == k \div 2
    IN  IF k % 2 = 0
        THEN <<Pt(j, 0, 0), Pt(j + 1, 0, 0), Pt(j, 1, 0)>>
        ELSE <<Pt(j + 1, 0, 0), Pt(j + 1, 1, 0), Pt(j, 1, 0)>>

Strip(n) == [i \in 1..n |-> StripTriangle(i - 1)]

(* a single flat quad: 2 triangles sharing an edge *)
Quad == Strip(2)

(* n triangles that share no vertex *)
DisjointTriangle(k) ==
    LET x == 2 * (k % 4)
        y == 2 * (k \div 4)
    IN  <<Pt(x, y, 0), Pt(x + 1, y, 0), Pt(x, y + 1, 0)>>

Disjoint(n) == [i \in 1..n |-> DisjointTriangle(i - 1)]

(* two ears followed by k triangles on one common edge: the ears' first *)
(* edges absorb both ends of the common edge                             *)
Pinned(k) ==
    <<  <<Pt(0, 0, 0), Pt(1, 0, 0), Pt(0, 1, 0)>>,
        <<Pt(3, 0, 0), Pt(4, 0, 0), Pt(3, 1, 0)>>  >>
    \o [i \in 1..k |-> <<Pt(1, 0, 0), Pt(4, 0, 0), Pt(i, 3, 0)>>]

(* the closed unit cube: 12 triangles on 8 shared vertices *)
CubeQuad(a, b, c, d) == << <<a, b, c>>, <<a, c, d>> >>

Cube ==
       CubeQuad(Pt(0, 0, 0), Pt(0, 1, 0), Pt(1, 1, 0), Pt(1, 0, 0))
    \o CubeQuad(Pt(0, 0, 1), Pt(1, 0, 1), Pt(1, 1, 1), Pt(0, 1, 1))
    \o CubeQuad(Pt(0, 0, 0), Pt(1, 0, 0), Pt(1, 0, 1), Pt(0, 0, 1))
    \o CubeQuad(Pt(0, 1, 0), Pt(0, 1, 1), Pt(1, 1, 1), Pt(1, 1, 0))
    \o CubeQuad(Pt(0, 0, 0), Pt(0, 0, 1), Pt(0, 1, 1), Pt(0, 1, 0))
    \o CubeQuad(Pt(1, 0, 0), Pt(1, 1, 0), Pt(1, 1, 1), Pt(1, 0, 1))

CubeMeshes ==
    {ShiftSeq(RotateAll(Cube, j), k) : j \in 0..2, k \in 0..(Len(Cube) - 1)}

(* a triangle with two coincident vertices, built on triangle t *)
CoincidentTriangle(t) == <<t[1], t[1], t[2]>>

(* tris with a coincident-vertex triangle put in front of triangle i *)
WithCoincident(tris, i) ==
    SubSeq(tris, 1, i - 1) \o <<CoincidentTriangle(tris[i])>>
        \o SubSeq(tris, i, Len(tris))

StripMeshes == {RotateAll(Strip(n), j) : n \in 1..MaxStrip, j \in 0..2}

CoincidentMeshes ==
    UNION {{WithCoincident(Strip(n), i) : i \in {1, n}} : n \in 1..MaxStrip}

(* three different points on one line: a triangle of area 0 *)
CollinearTriangle == <<Pt(0, 0, 0), Pt(1, 0, 0), Pt(2, 0, 0)>>

(* the triangle alone, and after the strips whose lower border it lies on *)
CollinearMeshes ==
    {<<CollinearTriangle>>}
        \cup {Append(Strip(n), CollinearTriangle) : n \in 1..MaxStrip}

InputMeshes ==
    {Quad} \cup CubeMeshes \cup StripMeshes \cup CoincidentMeshes
        \cup CollinearMeshes
        \cup {Disjoint(n) : n \in 1..MaxDisjoint}
        \cup {Pinned(k) : k \in 1..MaxPinned}

(* tris with its last triangle cut to its first k points: positions.length *)
(* is then 9 * (Len(tris) - 1) + 3 * k, no multiple of 9                   *)
Truncated(tris, k) ==
    [tris EXCEPT ![Len(tris)] = SubSeq(tris[Len(tris)], 1, k)]

TruncatedMeshes == {Truncated(Strip(n), k) : n \in 1..MaxStrip, k \in 1..2}

(* positions.length is a multiple of 9 *)
WellFormed(tris) == \A t \in 1..Len(tris) : Len(tris[t]) = 3

(* a point at p + d / 10^7: d is below the 6th decimal of toFixed(6) *)
Near(p, d) == p \o d

(* triangles whose points lie within 10^-6 of each other or of the points *)
(* of another triangle                                                    *)
NearTriangles ==
    {<<Pt(0, 0, 0), Pt(1, 0, 0), Pt(0, 1, 0)>>,
     <<Pt(0, 0, 0), Near(Pt(0, 0, 0), <<4, 0, 0>>), Pt(0, 1, 0)>>,
     <<Pt(0, 0, 0), Near(Pt(0, 0, 0), <<6, 0, 0>>), Pt(0, 1, 0)>>,
     <<Near(Pt(1, 0, 0), <<-4, 0, 0>>), Pt(1, 1, 0), Pt(0, 1, 0)>>,
     <<Pt(1, 1, 0), Pt(1, 0, 0), Near(Pt(1, 0, 0), <<0, -4, 0>>)>>,
     <<Pt(0, 0, 0), Near(Pt(0, 0, 0), <<0, -4, 0>>), Pt(1, 0, 0)>>,
     <<Pt(0, 0, 0), Pt(1, 0, 0), Pt(0, 0, 0)>>,
     <<Near(Pt(0, 1, 0), <<0, 0, 3>>), Pt(1, 1, 0), Pt(0, 1, 0)>>}

(* the inputs of the extraction alone: up to MaxExtract such triangles *)
MaxExtract == 3

ExtractInputs == UNION {[1..n -> NearTriangles] : n \in 1..MaxExtract}

(* targetReduction, in percent: 0, 0.25, 0.5, 0.75, 0.99, 1 *)
Reductions == {0, 25, 50, 75, 99, 100}

-----------------------------------------------------------------------------
(* extractMeshData.  vertexMap is kept as the sequence keys: keys[i] is the *)
(* key under which vertex i was entered.                                   *)

KeyUnits == 1000000

(* tenths of the 6th decimal in a whole unit *)
SubUnits == 10 * KeyUnits

(* the part of coordinate i of point p below the 6th decimal, in tenths of *)
(* the 6th decimal                                                         *)
SubMicro(p, i) == IF Len(p) = 6 THEN p[3 + i] ELSE 0

(* x.toFixed(6) of the coordinate c + d / SubUnits: the sign that is       *)
(* printed and the digits, the value being rounded to the nearest          *)
(* 6-decimal number; a negative value that rounds to 0 prints "-0.000000"  *)
ToFixed6(c, d) ==
    LET x == c * SubUnits + d
        abs == IF x < 0 THEN 0 - x ELSE x
    IN  <<x < 0, (abs + 5) \div 10>>

(* the key of getVertexIndex, line 242 *)
VertexKey(p) ==
    <<ToFixed6(p[1], SubMicro(p, 1)), ToFixed6(p[2], SubMicro(p, 2)),
      ToFixed6(p[3], SubMicro(p, 3))>>

(* new Vector3(x, y, z): the whole part in units of 1 / PosScale, the part *)
(* below the 6th decimal, if any, as it is                                 *)
Scaled(p) ==
    <<p[1] * PosScale, p[2] * PosScale, p[3] * PosScale>>
        \o SubSeq(p, 4, Len(p))

(* lines 247-254 *)
NewVertex(p) ==
    [position |-> Scaled(p),
     faces |-> <<>>,
     edges |-> <<>>,
     quadric |-> ZeroQuadric,
     deleted |-> FALSE]

(* getVertexIndex: the state after the call, index being the value returned *)
GetVertexIndex(st, p) ==
    IF \E i \in 1..Len(st.keys) : st.keys[i] = VertexKey(p)
    THEN [st EXCEPT !.index =
            CHOOSE i \in 1..Len(st.keys) : st.keys[i] = VertexKey(p)]
    ELSE [st EXCEPT !.vertices = Append(@, NewVertex(p)),
                    !.keys = Append(@, VertexKey(p)),
                    !.index = Len(st.vertices) + 1]

(* the test of line 265 without v2 === v0 *)
IsDegenerateTwoTests(v0, v1, v2) == v0 = v1 \/ v1 = v2

(* line 265 *)
IsDegenerate(v0, v1, v2) == v0 = v1 \/ v1 = v2 \/ v2 = v0

(* one turn of the loop of lines 259-281 *)
ExtractTriangle(st, tri) ==
    LET s0 == GetVertexIndex(st, tri[1])
        s1 == GetVertexIndex(s0, tri[2])
        s2 == GetVertexIndex(s1, tri[3])
        v0 == s0.index
        v1 == s1.index
        v2 == s2.index
        faceIndex == Len(s2.faces) + 1
    IN  IF IsDegenerate(v0, v1, v2) THEN s2
        ELSE [s2 EXCEPT
                !.faces = Append(@, [vertices |-> <<v0, v1, v2>>,
                                     deleted |-> FALSE]),
                !.vertices[v0].faces = Append(@, faceIndex),
                !.vertices[v1].faces = Append(@, faceIndex),
                !.vertices[v2].faces = Append(@, faceIndex)]

(* the loop from turn t on: the state a turn leaves is computed, once, *)
(* before the next turn is entered with it                             *)
RECURSIVE ExtractFrom(_, _, _)
ExtractFrom(st, tris, t) ==
    IF t > Len(tris) THEN st
    ELSE CHOOSE last \in {ExtractFrom(next, tris, t + 1) :
                            next \in {ExtractTriangle(st, tris[t])}} : TRUE

ExtractMeshData(tris) ==
    LET st == ExtractFrom([vertices |-> <<>>, faces |-> <<>>, keys |-> <<>>,
                           index |-> 0], tris, 1)
    IN  [faces |-> st.faces, vertices |-> st.vertices]

-----------------------------------------------------------------------------
(* computeFaceNormal, on the real (unscaled) positions of a face's three   *)
(* vertices; area2 is twice the area.  The normal and the area of a face   *)
(* are read by computeQuadrics alone, before any vertex moves (a stored    *)
(* position is then a whole multiple of PosScale), so they are computed    *)
(* there and not kept in the face records.                                 *)

AreaEpsInv == 10000

Unscaled(p) == <<p[1] \div PosScale, p[2] \div PosScale, p[3] \div PosScale>>

ComputeFaceNormal(p0, p1, p2) ==
    LET n == CrossVectors(SubVectors(p1, p0), SubVectors(p2, p0))
        len == VLength(n)
    IN  [area2 |-> len,
         normal |-> IF len * AreaEpsInv > 2
                    THEN <<n[1] \div len, n[2] \div len, n[3] \div len>>
                    ELSE n]

FaceNormalOf(vs, face) ==
    ComputeFaceNormal(Unscaled(vs[face.vertices[1]].position),
                      Unscaled(vs[face.vertices[2]].position),
                      Unscaled(vs[face.vertices[3]].position))

-----------------------------------------------------------------------------
(* buildEdges.  The loop visits the three pairs of every live face in     *)
(* order; an edge record is created at the first pair with its key, and   *)
(* every pair pushes its face on the record of its key.                   *)

(* the pairs <<a, b, f>> in the order of the loop *)
FacePairs(fs) ==
    LET live == SelectSeq(IndexSeq(Len(fs)), LAMBDA f : ~fs[f].deleted)
    IN  [k \in 1..(3 * Len(live)) |->
            LET f == live[((k - 1) \div 3) + 1]
                i == ((k - 1) % 3) + 1
            IN  <<fs[f].vertices[i], fs[f].vertices[(i % 3) + 1], f>>]

SameKey(p, q) == Min(p[1], p[2]) = Min(q[1], q[2]) /\ Max(p[1], p[2]) = Max(q[1], q[2])

BuildEdges(fs) ==
    LET pairs == FacePairs(fs) \o <<>>
        created == SelectSeq(IndexSeq(Len(pairs)),
                     LAMBDA k : \A j \in 1..(k - 1) : ~SameKey(pairs[j], pairs[k]))
    IN  [e \in 1..Len(created) |->
            LET p == pairs[created[e]]
                sharing == SelectSeq(IndexSeq(Len(pairs)),
                              LAMBDA k : SameKey(pairs[k], p))
            IN  [v0 |-> Min(p[1], p[2]),
                 v1 |-> Max(p[1], p[2]),
                 faces |-> [k \in 1..Len(sharing) |-> pairs[sharing[k]][3]] \o <<>>,
                 cost |-> 0,
                 target |-> <<>>,
                 deleted |-> FALSE]] \o <<>>

(* vertex.edges: the edges pushed on the vertex, in creation order *)
VertexEdges(es, v) ==
    SelectSeq(IndexSeq(Len(es)), LAMBDA i : es[i].v0 = v \/ es[i].v1 = v)

RegisterEdges(vs, es) ==
    [v \in 1..Len(vs) |-> [vs[v] EXCEPT !.edges = VertexEdges(es, v)]] \o <<>>

-----------------------------------------------------------------------------
(* computeQuadrics *)

FaceQuadric(vs, face) ==
    LET fn == FaceNormalOf(vs, face)
        n == fn.normal
        d == (0 - Dot(n, vs[face.vertices[1]].position)) \div PosScale
    IN  QMultiplyScalar(FromPlane(n[1], n[2], n[3], d), fn.area2)

(* the quadric of vertex v after the first k of the faces that hold it,  *)
(* which are the faces of v.faces in the order of the loop, have been    *)
(* added                                                                 *)
RECURSIVE AccumulatedQuadric(_, _, _, _)
AccumulatedQuadric(vs, fs, v, k) ==
    IF k = 0 THEN ZeroQuadric
    ELSE IF ~fs[vs[v].faces[k]].deleted
    THEN QAdd(AccumulatedQuadric(vs, fs, v, k - 1),
              FaceQuadric(vs, fs[vs[v].faces[k]]))
    ELSE AccumulatedQuadric(vs, fs, v, k - 1)

ComputeQuadrics(vs, fs) ==
    [v \in 1..Len(vs) |->
        [vs[v] EXCEPT !.quadric =
            AccumulatedQuadric(vs, fs, v, Len(vs[v].faces))]] \o <<>>

-----------------------------------------------------------------------------
(* computeEdgeCosts, and the cost recomputation of collapseEdge *)

Penalised(cost, faceCount) ==
    IF faceCount < 2 THEN cost * BoundaryPenalty ELSE cost

EdgeTarget(a, b) == Midpoint(a.position, b.position)

RawCost(a, b) == Evaluate(QAdd(a.quadric, b.quadric), EdgeTarget(a, b))

ComputeEdgeCost(vs, e) ==
    IF e.deleted THEN e
    ELSE IF vs[e.v0].deleted \/ vs[e.v1].deleted
    THEN [e EXCEPT !.cost = Infinity]
    ELSE [e EXCEPT !.target = EdgeTarget(vs[e.v0], vs[e.v1]),
                   !.cost = Penalised(RawCost(vs[e.v0], vs[e.v1]),
                                      Len(e.faces))]

ComputeEdgeCosts(vs, es) ==
    [i \in 1..Len(es) |-> ComputeEdgeCost(vs, es[i])] \o <<>>

-----------------------------------------------------------------------------
(* simplify, up to the collapse loop *)

(* the target without the floor of MinFaces *)
TargetFaceCountUnfloored(n, r) == (n * (100 - r)) \div 100

TargetFaceCount(n, r) == Max(MinFaces, (n * (100 - r)) \div 100)

CountActiveFaces(fs) == Cardinality({f \in 1..Len(fs) : ~fs[f].deleted})

Progress(num, den) == [type |-> "progress", progress |-> <<num, den>>]

(* WorkerManager constructor, src/core/worker-manager.js lines 13-31;     *)
(* n is navigator.hardwareConcurrency || 4.  workers lists the entries   *)
(* of the Map in insertion order.                                        *)
DefaultMaxRetries == 2
DefaultHardwareConcurrency == 4

NewWorkerManager(n) ==
    [workers |-> <<>>,
     taskQueue |-> <<>>,
     nextWorkerId |-> 1,
     maxWorkers |-> n,
     maxRetries |-> DefaultMaxRetries,
     tasksCompleted |-> 0,
     tasksFailed |-> 0,
     activeWorkers |-> 0]

(* the page has made its manager and submitted nothing *)
HostConstructed(n) ==
    /\ wm = NewWorkerManager(n)
    /\ tasks = <<>>
    /\ timers = {}

(* One request handled by the worker.  The page is outside this           *)
(* specification: its variables keep their constructed values.            *)
Init ==
    /\ HostConstructed(DefaultHardwareConcurrency)
    /\ pc = "start"
    /\ positions \in InputMeshes \cup TruncatedMeshes
    /\ targetReduction \in Reductions
    /\ vertices = <<>>
    /\ faces = <<>>
    /\ edges = <<>>
    /\ originalFaceCount = 0
    /\ targetFaceCount = 0
    /\ collapsed = 0
    /\ iteration = 0
    /\ exhausted = FALSE
    /\ result = <<>>
    /\ posted = <<>>

(* simplify, lines 147-181 *)
Start ==
    /\ pc = "start"
    /\ WellFormed(positions)
    /\ LET ex == ExtractMeshData(positions)
           es == BuildEdges(ex.faces)
           vs == ComputeQuadrics(RegisterEdges(ex.vertices, es), ex.faces)
       IN  /\ faces' = ex.faces
           /\ vertices' = vs
           /\ edges' = ComputeEdgeCosts(vs, es)
           /\ originalFaceCount' = Len(ex.faces)
           /\ targetFaceCount' = TargetFaceCount(Len(ex.faces), targetReduction)
    /\ collapsed' = 0
    /\ iteration' = 0
    /\ posted' = posted \o <<Progress(5, 100), Progress(10, 100),
                            Progress(20, 100), Progress(30, 100),
                            Progress(30, 100)>>
    /\ pc' = "loop"
    /\ UNCHANGED <<positions, targetReduction, exhausted, result>>
    /\ UNCHANGED hostVars

-----------------------------------------------------------------------------
(* getMinimumCostEdge: the index of the edge found, 0 for null *)

(* the test of lines 403-404 on the tombstone alone *)
NotTombstoned(vs, e) == ~e.deleted

(* lines 403-404: the edges the scan does not skip *)
Selectable(vs, e) ==
    /\ ~e.deleted
    /\ ~vs[e.v0].deleted
    /\ ~vs[e.v1].deleted

(* the loop of lines 402-410: minCost starts at Infinity and an edge      *)
(* replaces the one kept only when its cost is strictly less, so the edge *)
(* returned is the first of the least cost below Infinity                 *)
GetMinimumCostEdge(vs, es) ==
    LET candidates == {k \in 1..Len(es) :
                          Selectable(vs, es[k]) /\ es[k].cost < Infinity}
    IN  IF candidates = {} THEN 0
        ELSE CHOOSE k \in candidates : \A j \in candidates :
                 \/ es[k].cost < es[j].cost
                 \/ es[k].cost = es[j].cost /\ k <= j

-----------------------------------------------------------------------------
(* collapseEdge *)

(* only the first face listed by both v0 and v1 *)
FirstSharedFace(v0, v1) ==
    LET shared == SelectSeq(v0.faces, LAMBDA f : Contains(v1.faces, f))
    IN  IF shared = <<>> THEN <<>> ELSE <<shared[1]>>

(* lines 432-445: the faces listed by both v0 and v1 are marked deleted *)
SharedFaces(v0, v1) == SelectSeq(v0.faces, LAMBDA f : Contains(v1.faces, f))

(* the shared faces get their deleted flag flipped instead of set *)
ToggleShared(fs, v0, v1) ==
    [f \in 1..Len(fs) |->
        IF Contains(SharedFaces(v0, v1), f)
        THEN [fs[f] EXCEPT !.deleted = ~@]
        ELSE fs[f]] \o <<>>

DeleteShared(fs, v0, v1) ==
    [f \in 1..Len(fs) |->
        IF Contains(SharedFaces(v0, v1), f)
        THEN [fs[f] EXCEPT !.deleted = TRUE]
        ELSE fs[f]] \o <<>>

(* the face keeps the absorbed vertex *)
KeepVertex(face, from, to) == face

(* lines 457-462 *)
ReplaceVertex(face, from, to) ==
    [face EXCEPT !.vertices =
        [i \in 1..3 |-> IF face.vertices[i] = from THEN to
                        ELSE face.vertices[i]]]

(* every face listed by v1 is pushed on v0.faces, without the tests of *)
(* lines 454 and 465                                                  *)
TransferFacesUntested(st, v0Index, v1Index) ==
    LET v1Faces == st.vertices[v1Index].faces
    IN  [vertices |-> [st.vertices EXCEPT ![v0Index].faces = @ \o v1Faces],
         faces |->
            [f \in 1..Len(st.faces) |->
                IF Contains(v1Faces, f) /\ ~st.faces[f].deleted
                THEN ReplaceVertex(st.faces[f], v1Index, v0Index)
                ELSE st.faces[f]] \o <<>>]

(* lines 452-468: every live face listed by v1 gets v0 in place of v1 and *)
(* is pushed on v0.faces unless v0 lists it already                       *)
TransferFaces(st, v0Index, v1Index) ==
    LET v0Faces == st.vertices[v0Index].faces
        v1Faces == st.vertices[v1Index].faces
        pushed == SelectSeq(IndexSeq(Len(v1Faces)),
                    LAMBDA k :
                        /\ ~st.faces[v1Faces[k]].deleted
                        /\ ~Contains(v0Faces, v1Faces[k])
                        /\ \A j \in 1..(k - 1) : v1Faces[j] # v1Faces[k])
    IN  [vertices |->
            [st.vertices EXCEPT ![v0Index].faces =
                @ \o [k \in 1..Len(pushed) |-> v1Faces[pushed[k]]]],
         faces |->
            [f \in 1..Len(st.faces) |->
                IF Contains(v1Faces, f) /\ ~st.faces[f].deleted
                THEN ReplaceVertex(st.faces[f], v1Index, v0Index)
                ELSE st.faces[f]] \o <<>>]

(* the set of lines 475-481 started empty instead of with v0Index *)
AffectedWithoutV0(vs, fs, v0Index) ==
    UNION {{fs[vs[v0Index].faces[k]].vertices[i] : i \in 1..3} :
            k \in {j \in 1..Len(vs[v0Index].faces) :
                        ~fs[vs[v0Index].faces[j]].deleted}}

(* lines 475-481 *)
AffectedVertices(vs, fs, v0Index) ==
    {v0Index} \cup
    UNION {{fs[vs[v0Index].faces[k]].vertices[i] : i \in 1..3} :
            k \in {j \in 1..Len(vs[v0Index].faces) :
                        ~fs[vs[v0Index].faces[j]].deleted}}

ActiveFaceCount(fs, e) ==
    Len(SelectSeq(e.faces, LAMBDA f : ~fs[f].deleted))

OtherIndex(e, vIndex) == IF e.v0 = vIndex THEN e.v1 ELSE e.v0

(* the recomputation also drops the deleted faces from edge.faces *)
RecomputeEdgePruned(vs, fs, e, vIndex) ==
    IF e.deleted THEN e
    ELSE IF vs[OtherIndex(e, vIndex)].deleted
    THEN [e EXCEPT !.deleted = TRUE]
    ELSE [e EXCEPT
            !.target = EdgeTarget(vs[vIndex], vs[OtherIndex(e, vIndex)]),
            !.cost = Penalised(RawCost(vs[vIndex], vs[OtherIndex(e, vIndex)]),
                               ActiveFaceCount(fs, e)),
            !.faces = SelectSeq(@, LAMBDA f : ~fs[f].deleted)]

(* lines 487-515, for the edge e reached through the live vertex vIndex *)
RecomputeEdge(vs, fs, e, vIndex) ==
    IF e.deleted THEN e
    ELSE IF vs[OtherIndex(e, vIndex)].deleted
    THEN [e EXCEPT !.deleted = TRUE]
    ELSE [e EXCEPT
            !.target = EdgeTarget(vs[vIndex], vs[OtherIndex(e, vIndex)]),
            !.cost = Penalised(RawCost(vs[vIndex], vs[OtherIndex(e, vIndex)]),
                               ActiveFaceCount(fs, e))]

(* lines 483-516.  The pass reads vertices and faces and writes edges only, *)
(* and revisiting an edge recomputes the same values, so the order of the   *)
(* visits does not matter.                                                  *)
UpdateAffected(vs, fs, es, v0Index) ==
    [i \in 1..Len(es) |->
        LET visitors == {v \in AffectedVertices(vs, fs, v0Index) :
                            ~vs[v].deleted /\ Contains(vs[v].edges, i)}
        IN  IF visitors = {} THEN es[i]
            ELSE RecomputeEdge(vs, fs, es[i], CHOOSE v \in visitors : TRUE)]
    \o <<>>

(* the quadrics are merged, v0 stays where it is *)
MergeWithoutMove(vs, e) ==
    [vs EXCEPT ![e.v0].quadric = QAdd(@, vs[e.v1].quadric)]

(* lines 421-425 *)
MoveAndMerge(vs, e) ==
    [vs EXCEPT ![e.v0].position = e.target,
               ![e.v0].quadric = QAdd(@, vs[e.v1].quadric)]

(* the edge is tombstoned, v1 is not *)
MarkEdgeOnly(vs, es, eIndex) ==
    [vertices |-> vs,
     edges |-> [es EXCEPT ![eIndex].deleted = TRUE]]

MarkDeleted(vs, es, eIndex) ==
    [vertices |-> [vs EXCEPT ![es[eIndex].v1].deleted = TRUE],
     edges |-> [es EXCEPT ![eIndex].deleted = TRUE]]

CollapseEdge(vs, fs, es, eIndex) ==
    LET e == es[eIndex]
        vs1 == MoveAndMerge(vs, e)
        fs1 == DeleteShared(fs, vs1[e.v0], vs1[e.v1])
        st == TransferFaces([vertices |-> vs1, faces |-> fs1], e.v0, e.v1)
        md == MarkDeleted(st.vertices, es, eIndex)
    IN  [vertices |-> md.vertices,
         faces |-> st.faces,
         edges |-> UpdateAffected(md.vertices, st.faces, md.edges, e.v0)]

-----------------------------------------------------------------------------
(* buildGeometry: the triangles emitted, as triples of stored positions *)

(* the filter of line 526 looking at the first listed face only *)
SurvivesByFirstFace(vs, fs, v) ==
    /\ ~vs[v].deleted
    /\ vs[v].faces # <<>>
    /\ ~fs[vs[v].faces[1]].deleted

(* line 526 *)
Survives(vs, fs, v) ==
    /\ ~vs[v].deleted
    /\ \E k \in 1..Len(vs[v].faces) : ~fs[vs[v].faces[k]].deleted

(* vertexMap.get(v): the new index, 0 for undefined *)
VertexMapGet(vs, fs, v) ==
    IF Survives(vs, fs, v)
    THEN Cardinality({u \in 1..v : Survives(vs, fs, u)})
    ELSE 0

Emitted(vs, fs, face) ==
    LET v0 == VertexMapGet(vs, fs, face.vertices[1])
        v1 == VertexMapGet(vs, fs, face.vertices[2])
        v2 == VertexMapGet(vs, fs, face.vertices[3])
    IN  /\ ~face.deleted
        /\ v0 # 0 /\ v1 # 0 /\ v2 # 0
        /\ ~IsDegenerate(v0, v1, v2)

FacePositions(vs, face) ==
    <<vs[face.vertices[1]].position, vs[face.vertices[2]].position,
      vs[face.vertices[3]].position>>

BuildGeometry(vs, fs) ==
    LET kept == SelectSeq(IndexSeq(Len(fs)),
                          LAMBDA f : Emitted(vs, fs, fs[f]))
    IN  [i \in 1..Len(kept) |-> FacePositions(vs, fs[kept[i]])] \o <<>>

-----------------------------------------------------------------------------
(* simplify: the collapse loop and the return; self.onmessage *)

(* the cap counts half the faces *)
MaxIterationsHalved == originalFaceCount \div 2

MaxIterations == originalFaceCount

(* the loop continues at the target instead of stopping there *)
LoopConditionInclusive ==
    /\ CountActiveFaces(faces) >= targetFaceCount
    /\ iteration < MaxIterations

LoopCondition ==
    /\ CountActiveFaces(faces) > targetFaceCount
    /\ iteration < MaxIterations

MinEdge == GetMinimumCostEdge(vertices, edges)

NoCollapsibleEdge ==
    IF MinEdge = 0 THEN TRUE ELSE edges[MinEdge].cost = Infinity

(* line 210 without the min: 0.3 + 0.6 * collapsed / ((original - target) / 2) *)
CollapseProgressUncapped(c) ==
    LET d == originalFaceCount - targetFaceCount
    IN  Progress(3 * d + 12 * c, 10 * d)

(* line 210: 0.3 + 0.6 * min(1, collapsed / ((original - target) / 2)) *)
CollapseProgress(c) ==
    LET d == originalFaceCount - targetFaceCount
    IN  IF 2 * c >= d THEN Progress(90, 100)
        ELSE Progress(3 * d + 12 * c, 10 * d)

(* line 215-219: min(0.9, 0.3 + 0.6 * collapsed / (original - target)) *)
PeriodicProgress(c) ==
    LET d == originalFaceCount - targetFaceCount
    IN  IF c >= d THEN Progress(90, 100)
        ELSE Progress(3 * d + 6 * c, 10 * d)

LoopMessages(c) ==
    (IF c <= 10 \/ c % 100 = 0 THEN <<CollapseProgress(c)>> ELSE <<>>)
    \o (IF c % 100 = 0 THEN <<PeriodicProgress(c)>> ELSE <<>>)

(* one iteration of the loop that collapses an edge, lines 183-223 *)
CollapseStep ==
    /\ pc = "loop"
    /\ LoopCondition
    /\ ~NoCollapsibleEdge
    /\ LET st == CollapseEdge(vertices, faces, edges, MinEdge)
       IN  /\ vertices' = st.vertices
           /\ faces' = st.faces
           /\ edges' = st.edges
    /\ collapsed' = collapsed + 1
    /\ iteration' = iteration + 1
    /\ posted' = posted \o LoopMessages(collapsed + 1)
    /\ UNCHANGED <<pc, positions, targetReduction, originalFaceCount,
                   targetFaceCount, exhausted, result>>
    /\ UNCHANGED hostVars

(* the iteration that finds no edge and breaks, lines 183-193 *)
NoMoreEdges ==
    /\ pc = "loop"
    /\ LoopCondition
    /\ NoCollapsibleEdge
    /\ exhausted' = TRUE
    /\ posted' = Append(posted, Progress(90, 100))
    /\ pc' = "rebuild"
    /\ UNCHANGED <<positions, targetReduction, vertices, faces, edges,
                   originalFaceCount, targetFaceCount, collapsed, iteration,
                   result>>
    /\ UNCHANGED hostVars

(* the loop condition fails, line 183 *)
LoopExit ==
    /\ pc = "loop"
    /\ ~LoopCondition
    /\ pc' = "rebuild"
    /\ UNCHANGED <<positions, targetReduction, vertices, faces, edges,
                   originalFaceCount, targetFaceCount, collapsed, iteration,
                   exhausted, result, posted>>
    /\ UNCHANGED hostVars

Complete(res) ==
    [type |-> "complete", positions |-> res,
     originalFaces |-> Len(positions), simplifiedFaces |-> Len(res)]

(* simplify lines 225-233 and self.onmessage lines 574-580 *)
Finish ==
    /\ pc = "rebuild"
    /\ result' = BuildGeometry(vertices, faces)
    /\ posted' = posted \o <<Progress(95, 100),
                             Complete(BuildGeometry(vertices, faces))>>
    /\ pc' = "done"
    /\ UNCHANGED <<positions, targetReduction, vertices, faces, edges,
                   originalFaceCount, targetFaceCount, collapsed, iteration,
                   exhausted>>
    /\ UNCHANGED hostVars

(* an error message that delivers the positions built so far *)
ErrorMessageWithPositions ==
    [type |-> "error", message |-> "TypeError", positions |-> <<>>]

(* the message of the catch clause, lines 582-589 *)
ErrorMessage == [type |-> "error", message |-> "TypeError"]

(* extractMeshData reads past the end of positions: the value read is      *)
(* undefined, toFixed of line 242 throws, simplify is left before its      *)
(* first progress message and the catch clause posts the error             *)
Throw ==
    /\ pc = "start"
    /\ ~WellFormed(positions)
    /\ posted' = Append(posted, ErrorMessage)
    /\ pc' = "failed"
    /\ UNCHANGED <<positions, targetReduction, vertices, faces, edges,
                   originalFaceCount, targetFaceCount, collapsed, iteration,
                   exhausted, result>>
    /\ UNCHANGED hostVars

Next == Start \/ Throw \/ CollapseStep \/ NoMoreEdges \/ LoopExit \/ Finish

Spec == Init /\ [][Next]_vars

(* One step of a call in progress, seen through pc and iteration alone:   *)
(* every step of Next changes pc or iteration in this way, and such a     *)
(* step is possible exactly until the terminal message is posted          *)
Advance ==
    /\ pc \notin {"done", "failed"}
    /\ pc' \in {"loop", "rebuild", "done", "failed"}
    /\ iteration' \in {iteration, iteration + 1}

(* simplify is synchronous code without suspension points, lines 147-234: *)
(* a started call keeps taking steps until it returns                     *)
FairSpec == Spec /\ WF_<<pc, iteration>>(Advance)

-----------------------------------------------------------------------------
(* extractMeshData on its own, lines 236-284 *)

ExtractInit ==
    /\ HostConstructed(DefaultHardwareConcurrency)
    /\ pc = "start"
    /\ positions \in ExtractInputs
    /\ targetReduction = 0
    /\ vertices = <<>>
    /\ faces = <<>>
    /\ edges = <<>>
    /\ originalFaceCount = 0
    /\ targetFaceCount = 0
    /\ collapsed = 0
    /\ iteration = 0
    /\ exhausted = FALSE
    /\ result = <<>>
    /\ posted = <<>>

Extract ==
    /\ pc = "start"
    /\ vertices' = ExtractMeshData(positions).vertices
    /\ faces' = ExtractMeshData(positions).faces
    /\ pc' = "extracted"
    /\ UNCHANGED <<positions, targetReduction, edges, originalFaceCount,
                   targetFaceCount, collapsed, iteration, exhausted, result,
                   posted>>
    /\ UNCHANGED hostVars

ExtractSpec == ExtractInit /\ [][Extract]_vars

-----------------------------------------------------------------------------
(* The page: WorkerManager and SimplificationWorkerManager of              *)
(* src/core/worker-manager.js.  Worker and task ids are 1-based here       *)
(* (0-based in the source), and 0 stands for null.  A handler of the page  *)
(* runs to completion: executeTaskInWorker is async but never awaits.  The *)
(* Worker constructor and postMessage are taken not to throw (the data of  *)
(* simplifyMesh, a Float32Array and a number, can be cloned), so the catch *)
(* clause of lines 124-135 is not entered.                                 *)

(* the page state the handlers work on *)
Host == [wm |-> wm, tasks |-> tasks, timers |-> timers]

(* executeTask lines 41-52, with the promise of line 54.  starts,          *)
(* rejectCalls and resolveCalls record what happened to the task: calls of *)
(* executeTaskInWorker, task.reject and task.resolve.                      *)
NewTask(priority, data, maxRetries) ==
    [priority |-> priority,
     data |-> data,
     retries |-> 0,
     maxRetries |-> maxRetries,
     timeoutHandle |-> 0,
     promise |-> "pending",
     starts |-> 0,
     rejectCalls |-> 0,
     resolveCalls |-> 0]

(* the index in wm.workers of the entry with this id, 0 when deleted *)
WorkerIndex(h, id) ==
    IF \E i \in 1..Len(h.wm.workers) : h.wm.workers[i].id = id
    THEN CHOOSE i \in 1..Len(h.wm.workers) : h.wm.workers[i].id = id
    ELSE 0

(* getAvailableWorker: the id of the first entry that is not busy (every *)
(* task of the model has the same workerUrl), 0 for null                 *)
GetAvailableWorker(h) ==
    LET idle == {i \in 1..Len(h.wm.workers) : ~h.wm.workers[i].busy}
    IN  IF idle = {} THEN 0
        ELSE h.wm.workers[CHOOSE i \in idle : \A j \in idle : i <= j].id

(* createWorker.  listeners are the tasks whose messageHandler and       *)
(* errorHandler are attached to the worker, request is the task whose    *)
(* data the worker script has received and not yet answered.             *)
CreateWorker(h) ==
    [h EXCEPT !.wm.workers =
                Append(@, [id |-> h.wm.nextWorkerId, busy |-> FALSE, task |-> 0,
                           listeners |-> <<>>, request |-> 0]),
              !.wm.nextWorkerId = @ + 1]

(* releaseWorker *)
ReleaseWorker(h, id) ==
    LET i == WorkerIndex(h, id)
    IN  IF i = 0 THEN h
        ELSE [h EXCEPT !.wm.workers[i].busy = FALSE,
                       !.wm.workers[i].task = 0,
                       !.wm.activeWorkers = @ - 1]

(* clearTimeout(task.timeoutHandle) *)
ClearTimeout(h, t) ==
    [h EXCEPT !.timers = @ \ {<<t, h.tasks[t].timeoutHandle>>}]

(* executeTaskInWorker, processQueue and handleTaskFailure call one *)
(* another                                                          *)
RECURSIVE ProcessQueue(_)
RECURSIVE HandleTaskFailure(_, _, _)

(* executeTaskInWorker.  Lines 89-119 make the worker busy, set the timer *)
(* and attach the handlers; postMessage of line 122 throws a              *)
(* DataCloneError for data that cannot be cloned, and the catch clause of *)
(* lines 124-135 then clears the timer, releases the worker and calls     *)
(* handleTaskFailure without handlers: the handlers stay attached.  The   *)
(* Worker constructor is taken not to throw.                              *)
ExecuteTaskInWorker(h, t) ==
    LET h1 == IF GetAvailableWorker(h) = 0 THEN CreateWorker(h) ELSE h
        id == GetAvailableWorker(h1)
        i == WorkerIndex(h1, id)
        attached == [h1 EXCEPT !.wm.workers[i].busy = TRUE,
                               !.wm.workers[i].task = t,
                               !.wm.workers[i].listeners = Append(@, t),
                               !.wm.activeWorkers = @ + 1,
                               !.tasks[t].timeoutHandle = id,
                               !.tasks[t].starts = @ + 1,
                               !.timers = @ \cup {<<t, id>>}]
    IN  IF h.tasks[t].data = "uncloneable"
        THEN HandleTaskFailure(ReleaseWorker(ClearTimeout(attached, t), id),
                               t, 0)
        ELSE [attached EXCEPT !.wm.workers[i].request = t]

(* processQueue *)
ProcessQueue(h) ==
    IF Len(h.wm.taskQueue) > 0 /\ h.wm.activeWorkers < h.wm.maxWorkers
    THEN ProcessQueue(ExecuteTaskInWorker([h EXCEPT !.wm.taskQueue = Tail(@)],
                                          Head(h.wm.taskQueue)))
    ELSE h

(* taskQueue.sort((a, b) => b.priority - a.priority): stable, higher *)
(* priority first                                                    *)
SortByPriority(q, ts) ==
    LET before(k) == Cardinality({j \in 1..Len(q) :
                        \/ ts[q[j]].priority > ts[q[k]].priority
                        \/ ts[q[j]].priority = ts[q[k]].priority /\ j < k})
    IN  [pos \in 1..Len(q) |-> q[CHOOSE k \in 1..Len(q) : before(k) = pos - 1]]

(* terminateWorker *)
TerminateWorker(h, id) ==
    LET i == WorkerIndex(h, id)
    IN  IF i = 0 THEN h
        ELSE [h EXCEPT !.wm.workers =
                            SelectSeq(@, LAMBDA w : w.id # id),
                       !.wm.activeWorkers =
                            IF h.wm.workers[i].busy THEN @ - 1 ELSE @]

(* s without its first entry equal to x *)
RemoveFirst(s, x) ==
    IF ~Contains(s, x) THEN s
    ELSE LET k == CHOOSE i \in 1..Len(s) :
                      s[i] = x /\ \A j \in 1..(i - 1) : s[j] # x
         IN  SubSeq(s, 1, k - 1) \o SubSeq(s, k + 1, Len(s))

(* removeEventListener of the pair of handlers made for an attempt of     *)
(* task t on the worker `from`, called on the worker `on`: it removes     *)
(* something only if the pair is attached there, and then that pair alone *)
(* (the pairs of two attempts of t on one worker are different functions  *)
(* that do the same)                                                      *)
RemoveListeners(h, on, from, t) ==
    LET i == WorkerIndex(h, on)
    IN  IF i = 0 \/ on # from THEN h
        ELSE [h EXCEPT !.wm.workers[i].listeners = RemoveFirst(@, t)]

(* task.reject and task.resolve: a settled promise stays as it is *)
Reject(h, t) ==
    [h EXCEPT !.tasks[t].rejectCalls = @ + 1,
              !.tasks[t].promise = IF @ = "pending" THEN "rejected" ELSE @]

Resolve(h, t) ==
    [h EXCEPT !.tasks[t].resolveCalls = @ + 1,
              !.tasks[t].promise = IF @ = "pending" THEN "resolved" ELSE @]

(* the first entry of the Map whose task is t, line 218; 0 when none *)
FindWorkerOfTask(h, t) ==
    LET mine == {i \in 1..Len(h.wm.workers) : h.wm.workers[i].task = t}
    IN  IF mine = {} THEN 0
        ELSE h.wm.workers[CHOOSE i \in mine : \A j \in mine : i <= j].id

(* lines 225-240 with the test retries <= maxRetries *)
RetryOnceMore(h, t) ==
    IF h.tasks[t].retries <= h.tasks[t].maxRetries
    THEN ProcessQueue([h EXCEPT !.tasks[t].retries = @ + 1,
                                !.wm.taskQueue = <<t>> \o @])
    ELSE ProcessQueue(Reject([h EXCEPT !.wm.tasksFailed = @ + 1], t))

(* lines 225-240 *)
RetryOrReject(h, t) ==
    IF h.tasks[t].retries < h.tasks[t].maxRetries
    THEN ProcessQueue([h EXCEPT !.tasks[t].retries = @ + 1,
                                !.wm.taskQueue = <<t>> \o @])
    ELSE ProcessQueue(Reject([h EXCEPT !.wm.tasksFailed = @ + 1], t))

(* handleTaskFailure; handlers is the worker whose pair of handlers is *)
(* passed, 0 when none is passed                                       *)
HandleTaskFailure(h, t, handlers) ==
    LET h1 == ClearTimeout(h, t)
        h2 == IF handlers # 0 /\ FindWorkerOfTask(h1, t) # 0
              THEN RemoveListeners(h1, FindWorkerOfTask(h1, t), handlers, t)
              ELSE h1
    IN  RetryOrReject(h2, t)

(* handleTaskSuccess *)
HandleTaskSuccess(h, id, t) ==
    LET h1 == RemoveListeners(ClearTimeout(h, t), id, id, t)
        h2 == [h1 EXCEPT !.wm.tasksCompleted = @ + 1]
    IN  ProcessQueue(Resolve(ReleaseWorker(h2, id), t))

(* handleWorkerError *)
HandleWorkerError(h, id, t) ==
    HandleTaskFailure(TerminateWorker(RemoveListeners(h, id, id, t), id), t, 0)

(* handleTaskTimeout *)
HandleTaskTimeout(h, id, t) ==
    HandleTaskFailure(TerminateWorker(h, id), t, 0)

(* handleWorkerMessage; task.onProgress of line 145 is the caller's and *)
(* leaves the manager as it is                                         *)
HandleWorkerMessage(h, id, t, type) ==
    IF type = "progress" THEN h
    ELSE IF type = "complete" THEN HandleTaskSuccess(h, id, t)
    ELSE IF type = "error" THEN HandleTaskFailure(h, t, id)
    ELSE h

(* the pair of handlers of task t is still attached to worker id: the *)
(* Worker object keeps its listeners when its Map entry is deleted    *)
Attached(h, id, t) ==
    IF WorkerIndex(h, id) = 0 THEN TRUE
    ELSE Contains(h.wm.workers[WorkerIndex(h, id)].listeners, t)

(* an event of worker id is given to the listeners attached when it is *)
(* dispatched, in the order of their attachment, those removed by an   *)
(* earlier listener being skipped; type "fault" is the error event     *)
RECURSIVE Dispatch(_, _, _, _, _)
Dispatch(h, id, listeners, k, type) ==
    IF k > Len(listeners) THEN h
    ELSE IF ~Attached(h, id, listeners[k])
    THEN Dispatch(h, id, listeners, k + 1, type)
    ELSE IF type = "fault"
    THEN Dispatch(HandleWorkerError(h, id, listeners[k]), id, listeners,
                  k + 1, type)
    ELSE Dispatch(HandleWorkerMessage(h, id, listeners[k], type), id,
                  listeners, k + 1, type)

(* bounds of the page *)
MaxTasks == 2
MaxHardwareConcurrency == 2

Priorities == {0, 1}

(* what simplifyMesh is given: positions of a length that is a multiple *)
(* of 9, or not                                                         *)
TaskData == {"valid", "truncated"}

SetHost(h) ==
    /\ wm' = h.wm
    /\ tasks' = h.tasks
    /\ timers' = h.timers

(* no request is in the worker of this specification *)
WorkerIdle ==
    /\ pc = "idle"
    /\ positions = <<>>
    /\ targetReduction = 0
    /\ vertices = <<>>
    /\ faces = <<>>
    /\ edges = <<>>
    /\ originalFaceCount = 0
    /\ targetFaceCount = 0
    /\ collapsed = 0
    /\ iteration = 0
    /\ exhausted = FALSE
    /\ result = <<>>
    /\ posted = <<>>

HostInit ==
    /\ WorkerIdle
    /\ \E n \in 1..MaxHardwareConcurrency : HostConstructed(n)

(* executeTask, lines 40-67, with data of one of the kinds given *)
Submit(kinds) ==
    /\ Len(tasks) < MaxTasks
    /\ \E priority \in Priorities, data \in kinds :
        LET t == Len(tasks) + 1
            ts == Append(tasks, NewTask(priority, data, wm.maxRetries))
            q == SortByPriority(Append(wm.taskQueue, t), ts)
        IN  SetHost(ProcessQueue([wm |-> [wm EXCEPT !.taskQueue = q],
                                  tasks |-> ts,
                                  timers |-> timers]))
    /\ UNCHANGED workerVars

(* a task submitted through simplifyMesh *)
ExecuteTask == Submit(TaskData)

(* the worker script answering task r *)
Answers(r) == IF tasks[r].data = "valid" THEN {"progress", "complete"}
              ELSE {"error"}

(* a message posted by a worker is dispatched on the page; a terminal *)
(* message ends the worker's request (self.onmessage, lines 559-590)  *)
WorkerMessage ==
    /\ \E i \in 1..Len(wm.workers) :
        /\ wm.workers[i].request # 0
        /\ \E type \in Answers(wm.workers[i].request) :
            LET w == wm.workers[i]
                h == IF type = "progress" THEN Host
                     ELSE [Host EXCEPT !.wm.workers[i].request = 0]
            IN  SetHost(Dispatch(h, w.id, w.listeners, 1, type))
    /\ UNCHANGED workerVars

(* the error event of a worker that has a request: its script failed to *)
(* load or threw outside a try block                                    *)
WorkerError ==
    /\ \E i \in 1..Len(wm.workers) :
        /\ wm.workers[i].request # 0
        /\ LET w == wm.workers[i]
           IN  SetHost(Dispatch([Host EXCEPT !.wm.workers[i].request = 0],
                                w.id, w.listeners, 1, "fault"))
    /\ UNCHANGED workerVars

(* a pending timer fires: the callback of lines 104-106 *)
TaskTimeout ==
    /\ \E tm \in timers :
        SetHost(HandleTaskTimeout([Host EXCEPT !.timers = @ \ {tm}],
                                  tm[2], tm[1]))
    /\ UNCHANGED workerVars

HostNext == ExecuteTask \/ WorkerMessage \/ WorkerError \/ TaskTimeout

HostSpec == HostInit /\ [][HostNext]_vars

(* WorkerManager used on its own: executeTask is given any data, also   *)
(* data that postMessage cannot clone (an object holding a function)    *)
AnyTaskData == TaskData \cup {"uncloneable"}

ExecuteAnyTask == Submit(AnyTaskData)

ManagerNext == ExecuteAnyTask \/ WorkerMessage \/ WorkerError \/ TaskTimeout

ManagerSpec == HostInit /\ [][ManagerNext]_vars

-----------------------------------------------------------------------------
(* Vocabulary of the properties *)

LiveFaces == CountActiveFaces(faces)

Extracted == pc \in {"loop", "rebuild", "done"}

(* max(4, floor(originalFaces * (1 - r))) *)
RequestedFaces == Max(4, (originalFaceCount * (100 - targetReduction)) \div 100)

DeletedVertexCount ==
    Cardinality({v \in 1..Len(vertices) : vertices[v].deleted})

DeletedEdgeCount == Cardinality({e \in 1..Len(edges) : edges[e].deleted})

(* the number of live faces that contain both endpoints of edge e *)
IncidentLiveFaces(e) ==
    Cardinality({f \in 1..Len(faces) :
        /\ ~faces[f].deleted
        /\ \E i \in 1..3 : faces[f].vertices[i] = e.v0
        /\ \E i \in 1..3 : faces[f].vertices[i] = e.v1})

EdgeRawCost(e) == RawCost(vertices[e.v0], vertices[e.v1])

(* the loop is about to collapse the edge MinEdge *)
AboutToCollapse == pc = "loop" /\ LoopCondition /\ ~NoCollapsibleEdge

CollapseHappens == collapsed' = collapsed + 1

LastPosted == posted[Len(posted)]

(* the triangles of the faces kept by extraction, in extraction order *)
ExtractedTriangles ==
    LET ex == ExtractMeshData(positions)
    IN  [i \in 1..Len(ex.faces) |-> FacePositions(ex.vertices, ex.faces[i])]

QuadInputs == {RotateAll(Quad, j) : j \in 0..2}

-----------------------------------------------------------------------------
C2_FloorNeverUndershot ==
    (Extracted /\ originalFaceCount >= 4) =>
        /\ LiveFaces >= 4
        /\ pc = "done" => Len(result) >= 4

(* C3: across every step of the loop the live-face count does not grow, *)
(* no face record is added and no deleted flag is cleared.              *)
C3_LiveFacesNonIncreasing ==
    [][pc = "loop" =>
        /\ CountActiveFaces(faces') <= CountActiveFaces(faces)
        /\ Len(faces') = Len(faces)
        /\ \A f \in 1..Len(faces) : faces[f].deleted => faces'[f].deleted]_vars

C3_Witness ==
    /\ pc = "loop"
    /\ collapsed >= 2
    /\ LiveFaces < originalFaceCount
    /\ LoopCondition

(* C4: every collapse the loop performs removes at least one live face. *)
C4_EveryCollapseRemovesAFace ==
    [][CollapseHappens =>
        CountActiveFaces(faces') < CountActiveFaces(faces)]_vars

(* C5: with targetReduction = 0 no collapse is performed: the output is  *)
(* one triangle per face kept by extraction, in extraction order, and no *)
(* vertex is moved or deleted.                                           *)
C5_ReductionZeroKeepsMesh ==
    (pc = "done" /\ targetReduction = 0) =>
        /\ collapsed = 0
        /\ result = ExtractedTriangles
        /\ LET ex == ExtractMeshData(positions)
           IN  /\ Len(vertices) = Len(ex.vertices)
               /\ \A v \in 1..Len(vertices) :
                    /\ ~vertices[v].deleted
                    /\ vertices[v].position = ex.vertices[v].position

C5_Witness ==
    /\ pc = "done"
    /\ targetReduction = 0
    /\ Len(result) >= 5
    /\ Len(result) < Len(positions)

(* C6: when the loop collapses a boundary edge (fewer than 2 live incident *)
(* faces), no selectable interior edge (2 live incident faces) has the     *)
(* same raw cost: the interior edge would have been collapsed first.       *)
C6_InteriorBeforeBoundary ==
    (AboutToCollapse /\ IncidentLiveFaces(edges[MinEdge]) < 2) =>
        ~\E e \in 1..Len(edges) :
            /\ Selectable(vertices, edges[e])
            /\ IncidentLiveFaces(edges[e]) = 2
            /\ EdgeRawCost(edges[e]) = EdgeRawCost(edges[MinEdge])

(* C7, as stated: on a single flat quad with targetReduction = 0.99 *)
(* simplify returns exactly 4 faces.                                *)
C7_QuadReturnsFour ==
    (pc = "done" /\ positions \in QuadInputs /\ targetReduction = 99) =>
        Len(result) = 4

(* C7, amended: on a single flat quad with targetReduction = 0.99 the   *)
(* target is the floor of 4, no collapse is performed and simplify      *)
(* returns the 2 input faces, never 0.                                  *)
C7_QuadKeepsTwo ==
    (pc = "done" /\ positions \in QuadInputs /\ targetReduction = 99) =>
        /\ targetFaceCount = 4
        /\ collapsed = 0
        /\ Len(result) = 2
        /\ result = ExtractedTriangles

C7_Witness ==
    /\ pc = "done"
    /\ positions \in QuadInputs
    /\ targetReduction = 99
    /\ LastPosted.type = "complete"

(* C8: on the closed unit cube with targetReduction = 0.5 simplify returns *)
(* at most 6 and at least 4 triangles and ends with a 'complete' message,  *)
(* for every order of the cube's triangles and of their vertices.          *)
C8_CubeHalved ==
    (pc = "done" /\ positions \in CubeMeshes /\ targetReduction = 50) =>
        /\ Len(result) <= 6
        /\ Len(result) >= 4
        /\ LastPosted.type = "complete"
        /\ LastPosted.simplifiedFaces = Len(result)

C8_Witness ==
    /\ pc = "done"
    /\ positions \in CubeMeshes
    /\ targetReduction = 50
    /\ collapsed >= 3
    /\ Len(result) \in 4..6

(* C9: every reported count is the number of extracted faces: the target *)
(* computation, the iteration cap and the original face count of the     *)
(* 'complete' message.                                                   *)
C9_CountsUseExtractedFaces ==
    pc = "done" =>
        /\ originalFaceCount = Len(ExtractedTriangles)
        /\ targetFaceCount = RequestedFaces
        /\ MaxIterations = Len(ExtractedTriangles)
        /\ LastPosted.type = "complete"
        /\ LastPosted.originalFaces = Len(ExtractedTriangles)

(* C10, as stated: each iteration that does not break tombstones exactly *)
(* one more vertex and exactly one more edge.                            *)
C10_OneVertexOneEdge ==
    [][CollapseHappens =>
        /\ DeletedVertexCount' = DeletedVertexCount + 1
        /\ DeletedEdgeCount' = DeletedEdgeCount + 1]_vars

(* C10, amended: on a valid input (length divisible by 9) simplify       *)
(* always terminates: the loop performs at most                          *)
(* originalFaceCount iterations, each iteration that does not break      *)
(* tombstones exactly one more vertex and at least one more edge, and    *)
(* the call then returns a result.                                       *)
C10_Terminates ==
    /\ [](iteration <= originalFaceCount /\ collapsed = iteration)
    /\ [][Advance /\ <<pc, iteration>>' # <<pc, iteration>>]_vars
    /\ [][CollapseHappens =>
            /\ iteration' = iteration + 1
            /\ DeletedVertexCount' = DeletedVertexCount + 1
            /\ DeletedEdgeCount' >= DeletedEdgeCount + 1]_vars
    /\ WellFormed(positions) => <>(pc = "done" /\ LastPosted.type = "complete")

C10_Witness ==
    /\ pc = "done"
    /\ iteration = originalFaceCount
    /\ iteration >= 9
    /\ DeletedVertexCount = iteration

(* some edge can still be selected: not tombstoned, both endpoints live, *)
(* finite cost                                                           *)
CollapsibleEdgeExists ==
    \E e \in 1..Len(edges) :
        Selectable(vertices, edges[e]) /\ edges[e].cost < Infinity

(* C11: when the loop has been left, either the live-face count is at most *)
(* the target face count or no selectable edge of finite cost exists.      *)
C11_ExitByTargetOrExhaustion ==
    pc = "rebuild" => (LiveFaces <= targetFaceCount \/ ~CollapsibleEdgeExists)

(* a terminal message has been posted *)
TerminalPosted ==
    posted # <<>> /\ LastPosted.type \in {"complete", "error"}

(* C12: the messages posted for a request are progress messages followed  *)
(* by exactly one terminal message and nothing after it: 'complete' when  *)
(* simplify returns (also after exhaustion above the target), 'error'     *)
(* when it throws, never both, and no positions with an 'error'.          *)
C12_OneTerminalMessage ==
    /\ [](\A i \in 1..Len(posted) :
            /\ posted[i].type \in {"progress", "complete", "error"}
            /\ posted[i].type # "progress" => i = Len(posted)
            /\ posted[i].type = "error" => "positions" \notin DOMAIN posted[i])
    /\ [](pc = "done" => LastPosted.type = "complete")
    /\ [](pc = "failed" => LastPosted.type = "error")
    /\ [](TerminalPosted <=> pc \in {"done", "failed"})
    /\ [][TerminalPosted => posted' = posted]_vars
    /\ <>TerminalPosted

C12_Witness ==
    /\ pc = "done"
    /\ exhausted
    /\ LiveFaces > targetFaceCount
    /\ LastPosted.type = "complete"
    /\ Len(posted) >= 7

(* the progress value num / den of a message lies in [0, 1] *)
InUnitInterval(m) ==
    /\ m.progress[2] > 0
    /\ 0 <= m.progress[1]
    /\ m.progress[1] <= m.progress[2]

(* C13: every progress message posted carries a value in [0, 1], and      *)
(* whenever the loop computes a progress value the divisor                *)
(* originalFaceCount - targetFaceCount is strictly positive; with that    *)
(* divisor both progress expressions of the loop stay in [0, 1] for every *)
(* collapse count up to MaxCollapseCount.                                 *)
C13_ProgressInUnitInterval ==
    /\ \A i \in 1..Len(posted) :
            posted[i].type = "progress" => InUnitInterval(posted[i])
    /\ AboutToCollapse =>
            /\ originalFaceCount - targetFaceCount > 0
            /\ \A c \in 1..MaxCollapseCount :
                    /\ InUnitInterval(CollapseProgress(c))
                    /\ InUnitInterval(PeriodicProgress(c))

C13_Witness ==
    /\ pc = "loop"
    /\ collapsed >= 2
    /\ LastPosted.type = "progress"
    /\ 10 * LastPosted.progress[1] > 3 * LastPosted.progress[2]
    /\ 10 * LastPosted.progress[1] < 9 * LastPosted.progress[2]

(* an attempt of task t is under way: a worker has its request *)
Running(t) == \E i \in 1..Len(wm.workers) : wm.workers[i].request = t

Queued(t) == Contains(wm.taskQueue, t)

(* C14: a task is started at most 3 times (1 + the default 2 retries),   *)
(* whatever ends its attempts; its promise is rejected at most once, and *)
(* exactly once when its third attempt has failed, and a rejected task   *)
(* is neither queued nor started again.                                  *)
C14_AtMostThreeStarts ==
    \A t \in 1..Len(tasks) :
        /\ tasks[t].starts <= DefaultMaxRetries + 1
        /\ tasks[t].rejectCalls <= 1
        /\ tasks[t].rejectCalls = 1 =>
                /\ tasks[t].starts = DefaultMaxRetries + 1
                /\ tasks[t].promise = "rejected"
                /\ ~Queued(t)
                /\ ~Running(t)
        /\ (tasks[t].starts = DefaultMaxRetries + 1 /\ ~Running(t)
                /\ tasks[t].resolveCalls = 0) =>
                tasks[t].rejectCalls = 1

(* a third attempt has failed after an 'error' message ended an earlier *)
(* one (its worker is still in the pool) and a timeout or an error event *)
(* another                                                               *)
C14_Witness ==
    \E t \in 1..Len(tasks) :
        /\ tasks[t].starts = 3
        /\ tasks[t].rejectCalls = 1
        /\ wm.tasksFailed = 1
        /\ \E i \in 1..Len(wm.workers) :
                wm.workers[i].task = t /\ wm.workers[i].request = 0
        /\ wm.nextWorkerId > Len(wm.workers) + 1

(* the vertices of face f are three different live vertices of the mesh *)
ProperFace(f) ==
    /\ ~IsDegenerate(faces[f].vertices[1], faces[f].vertices[2],
                     faces[f].vertices[3])
    /\ \A i \in 1..3 :
            /\ faces[f].vertices[i] \in 1..Len(vertices)
            /\ ~vertices[faces[f].vertices[i]].deleted

(* C15: after extraction and after any sequence of collapses, every live *)
(* face references three pairwise distinct vertex indices, all of them   *)
(* in range and live.                                                    *)
C15_LiveFacesProper ==
    Extracted => \A f \in 1..Len(faces) : ~faces[f].deleted => ProperFace(f)

(* two collapses have happened and a live face holds a vertex that the *)
(* input triangle it comes from did not have                           *)
C15_Witness ==
    /\ Extracted
    /\ collapsed >= 2
    /\ \E f \in 1..Len(faces) :
            /\ ~faces[f].deleted
            /\ faces[f].vertices # ExtractMeshData(positions).faces[f].vertices

(* face record face holds vertex v *)
Holds(face, v) == \E i \in 1..3 : face.vertices[i] = v

(* C16: a collapse of the edge v0-v1 leaves v0, the lower index, live at *)
(* the edge's cached target, marks v1 and the edge deleted, leaves every *)
(* face that held both v0 and v1 deleted, and leaves every other face    *)
(* that was live and held v1 live, with v0 in the slots where v1 was and *)
(* listed by v0.                                                         *)
C16_CollapsePostcondition ==
    [][CollapseHappens =>
        LET e == edges[MinEdge]
        IN  /\ e.v0 < e.v1
            /\ ~vertices'[e.v0].deleted
            /\ vertices'[e.v0].position = e.target
            /\ vertices'[e.v1].deleted
            /\ edges'[MinEdge].deleted
            /\ \A f \in 1..Len(faces) :
                /\ (Holds(faces[f], e.v0) /\ Holds(faces[f], e.v1)) =>
                        faces'[f].deleted
                /\ (~faces[f].deleted /\ Holds(faces[f], e.v1)
                        /\ ~Holds(faces[f], e.v0)) =>
                        /\ ~faces'[f].deleted
                        /\ \A i \in 1..3 :
                                faces'[f].vertices[i] =
                                    IF faces[f].vertices[i] = e.v1 THEN e.v0
                                    ELSE faces[f].vertices[i]
                        /\ Contains(vertices'[e.v0].faces, f)]_vars

(* a collapse has deleted a face of its edge and handed another face of *)
(* the absorbed vertex over to the kept one                             *)
C16_Witness ==
    /\ Extracted
    /\ \E i \in 1..Len(edges) :
        LET e == edges[i]
            was == ExtractMeshData(positions).faces
        IN  /\ e.deleted
            /\ vertices[e.v1].deleted
            /\ ~vertices[e.v0].deleted
            /\ \E f \in 1..Len(faces) :
                    /\ faces[f].deleted
                    /\ Holds(was[f], e.v0) /\ Holds(was[f], e.v1)
            /\ \E f \in 1..Len(faces) :
                    /\ ~faces[f].deleted
                    /\ Holds(was[f], e.v1) /\ ~Holds(was[f], e.v0)
                    /\ Holds(faces[f], e.v0)
                    /\ Contains(vertices[e.v0].faces, f)

(* the cached cost of edge e is the raw cost of its endpoints as they are *)
(* now, or 10 times that, and the two differ: the cache shows whether the *)
(* penalty was applied                                                    *)
PenaltyVisible(e) ==
    /\ Selectable(vertices, e)
    /\ EdgeRawCost(e) > 0
    /\ e.cost \in {EdgeRawCost(e), BoundaryPenalty * EdgeRawCost(e)}

CarriesPenalty(e) == e.cost = BoundaryPenalty * EdgeRawCost(e)

(* C17: after any sequence of collapses a selectable edge carries the x10  *)
(* penalty in its cached cost exactly when fewer than 2 live faces contain *)
(* both of its endpoints (stated for the edges whose cache shows it).      *)
C17_PenaltyMatchesLiveFaces ==
    Extracted =>
        \A i \in 1..Len(edges) :
            PenaltyVisible(edges[i]) =>
                (CarriesPenalty(edges[i]) <=> IncidentLiveFaces(edges[i]) < 2)

(* the edges that are not tombstoned and have two live endpoints *)
LiveEdges ==
    {i \in 1..Len(edges) :
        /\ ~edges[i].deleted
        /\ ~vertices[edges[i].v0].deleted
        /\ ~vertices[edges[i].v1].deleted}

InputPoints ==
    [k \in 1..(3 * Len(positions)) |->
        positions[((k - 1) \div 3) + 1][((k - 1) % 3) + 1]]

(* the first place in the input of a point with the key of p *)
FirstPlace(p) ==
    CHOOSE k \in 1..Len(InputPoints) :
        /\ VertexKey(InputPoints[k]) = VertexKey(p)
        /\ \A j \in 1..(k - 1) : VertexKey(InputPoints[j]) # VertexKey(p)

(* the index a point resolves to: keys are numbered as they first appear *)
ResolvedIndex(p) ==
    Cardinality({k \in 1..FirstPlace(p) : FirstPlace(InputPoints[k]) = k})

ResolvedTriangle(t) ==
    <<ResolvedIndex(positions[t][1]), ResolvedIndex(positions[t][2]),
      ResolvedIndex(positions[t][3])>>

(* the input triangles whose three resolved indices differ, in input order *)
ProperTriangles ==
    SelectSeq(IndexSeq(Len(positions)),
              LAMBDA t : Cardinality({ResolvedTriangle(t)[i] : i \in 1..3}) = 3)

(* C19: extraction keeps an input triangle as a face if and only if its  *)
(* three resolved indices are pairwise distinct; the kept triangles are  *)
(* the faces, numbered consecutively in input order, a dropped triangle  *)
(* has no face record, and the face list of a vertex holds the faces     *)
(* that contain it and nothing else.                                     *)
C19_KeepsProperTriangles ==
    pc = "extracted" =>
        /\ Len(faces) = Len(ProperTriangles)
        /\ \A f \in 1..Len(faces) :
                /\ faces[f].vertices = ResolvedTriangle(ProperTriangles[f])
                /\ ~faces[f].deleted
        /\ \A v \in 1..Len(vertices) :
                vertices[v].faces =
                    SelectSeq(IndexSeq(Len(faces)),
                              LAMBDA f : Holds(faces[f], v))

(* of three triangles the second is dropped because two of its points,  *)
(* different numbers, have one key; the third is face 2; a vertex made  *)
(* for the dropped triangle is on no face                               *)
C19_Witness ==
    /\ pc = "extracted"
    /\ Len(positions) = 3
    /\ ProperTriangles = <<1, 3>>
    /\ Len(faces) = 2
    /\ \E i, j \in 1..3 :
            /\ positions[2][i] # positions[2][j]
            /\ VertexKey(positions[2][i]) = VertexKey(positions[2][j])
    /\ \E v \in 1..Len(vertices) : vertices[v].faces = <<>>

(* the three points of tri lie on one line or coincide *)
ZeroArea(tri) ==
    CrossVectors(SubVectors(tri[2], tri[1]), SubVectors(tri[3], tri[1]))
        = <<0, 0, 0>>

(* C20: an input triangle of three different collinear points is dropped *)
(* during extraction: it is no face, it is not counted in                *)
(* originalFaceCount, and it is not in the output (looked at where no    *)
(* collapse has moved a vertex).                                         *)
C20_ZeroAreaDropped ==
    Extracted =>
        /\ \A f \in 1..Len(ExtractedTriangles) :
                ~ZeroArea(ExtractedTriangles[f])
        /\ originalFaceCount =
                Cardinality({t \in 1..Len(positions) : ~ZeroArea(positions[t])})
        /\ (pc = "done" /\ collapsed = 0) =>
                \A i \in 1..Len(result) : ~ZeroArea(result[i])

(* no element of the sequence s occurs in it twice *)
NoRepeat(s) == \A i, j \in 1..Len(s) : s[i] = s[j] => i = j

(* C21: after extraction and after any sequence of collapses, no vertex's *)
(* incident-face list contains the same face index twice.                 *)
C21_FaceListsWithoutRepeat ==
    Extracted => \A v \in 1..Len(vertices) : NoRepeat(vertices[v].faces)

(* after two collapses a live vertex lists more faces than extraction *)
(* gave it: faces of an absorbed vertex were pushed on its list       *)
C21_Witness ==
    /\ Extracted
    /\ collapsed >= 2
    /\ \E v \in 1..Len(vertices) :
            /\ ~vertices[v].deleted
            /\ Len(vertices[v].faces) >
                    Len(ExtractMeshData(positions).vertices[v].faces) + 1

(* the containers keep their lengths, an edge keeps its pair and its face *)
(* list, and no deleted flag is cleared                                   *)
SameRecords ==
    /\ Len(vertices') = Len(vertices)
    /\ Len(faces') = Len(faces)
    /\ Len(edges') = Len(edges)
    /\ \A i \in 1..Len(edges) :
            /\ edges'[i].v0 = edges[i].v0
            /\ edges'[i].v1 = edges[i].v1
            /\ edges'[i].faces = edges[i].faces
            /\ edges[i].deleted => edges'[i].deleted
    /\ \A v \in 1..Len(vertices) : vertices[v].deleted => vertices'[v].deleted
    /\ \A f \in 1..Len(faces) : faces[f].deleted => faces'[f].deleted

C23_OneTrianglePerLiveFace ==
    /\ pc \in {"rebuild", "done"} =>
            \A f \in 1..Len(faces) :
                ~faces[f].deleted =>
                    /\ Emitted(vertices, faces, faces[f])
                    /\ \A i \in 1..3 :
                            Survives(vertices, faces, faces[f].vertices[i])
    /\ pc = "done" =>
            /\ Len(result) = LiveFaces
            /\ \A i \in 1..Len(result) :
                    /\ Len(result[i]) = 3
                    /\ \A j \in 1..3 : Len(result[i][j]) = 3
            /\ LastPosted.type = "complete"
            /\ LastPosted.simplifiedFaces = LiveFaces
            /\ LastPosted.positions = result

(* the output is built after collapses that deleted faces and vertices *)
(* and left live faces on moved vertices                               *)
C23_Witness ==
    /\ pc = "done"
    /\ collapsed >= 2
    /\ LiveFaces >= 2
    /\ LiveFaces < Len(faces)
    /\ DeletedVertexCount >= 2
    /\ Len(result) = LiveFaces

(* an edge record with the canonical pair of a and b that is not *)
(* tombstoned                                                    *)
HasLiveEdgeRecord(a, b) ==
    \E i \in 1..Len(edges) :
        /\ edges[i].v0 = Min(a, b)
        /\ edges[i].v1 = Max(a, b)
        /\ ~edges[i].deleted

(* C24: after any sequence of collapses, each of the three vertex pairs *)
(* of every live face has an edge record with that canonical pair that  *)
(* is not tombstoned.                                                   *)
C24_FacePairsHaveEdges ==
    Extracted =>
        \A f \in 1..Len(faces) :
            ~faces[f].deleted =>
                \A i \in 1..3 :
                    HasLiveEdgeRecord(faces[f].vertices[i],
                                      faces[f].vertices[(i % 3) + 1])

(* C25: after every collapse, every edge that is not tombstoned has two *)
(* live endpoints: the edges of the absorbed vertex are all tombstoned  *)
(* by the recompute pass of that collapse.                              *)
C25_LiveEdgesHaveLiveEndpoints ==
    (Extracted /\ collapsed >= 1) =>
        \A i \in 1..Len(edges) :
            ~edges[i].deleted =>
                /\ ~vertices[edges[i].v0].deleted
                /\ ~vertices[edges[i].v1].deleted

(* the cost of line 506 for the endpoints of edge e as they are now, *)
(* written out: the sum of the quadrics evaluated at the midpoint    *)
FreshRawCost(e) ==
    Evaluate(QAdd(vertices[e.v0].quadric, vertices[e.v1].quadric),
             Midpoint(vertices[e.v0].position, vertices[e.v1].position))

(* C26: after every collapse, each edge that getMinimumCostEdge can     *)
(* select has as cached target the midpoint of its endpoints' current   *)
(* positions and as cached cost the cost of the sum of their current    *)
(* quadrics at that point, with or without the boundary penalty.        *)
C26_NoStaleEdge ==
    (Extracted /\ collapsed >= 1) =>
        \A i \in LiveEdges :
            /\ edges[i].target =
                    Midpoint(vertices[edges[i].v0].position,
                             vertices[edges[i].v1].position)
            /\ edges[i].cost \in {FreshRawCost(edges[i]),
                                  BoundaryPenalty * FreshRawCost(edges[i])}

(* a selectable edge of positive cost ends at a vertex that collapses *)
(* have moved                                                         *)
C26_Witness ==
    /\ Extracted
    /\ collapsed >= 2
    /\ \E i \in LiveEdges :
            /\ FreshRawCost(edges[i]) > 0
            /\ edges[i].cost >= FreshRawCost(edges[i])
            /\ vertices[edges[i].v0].position
                    # ExtractMeshData(positions).vertices[edges[i].v0].position

-----------------------------------------------------------------------------
(* One request on a mesh large enough for the loop to reach its 100th     *)
(* collapse with faces still to remove: MaxLong disjoint triangles and    *)
(* targetReduction 0.99.                                                  *)

MaxLong == 105

LongInit ==
    /\ HostConstructed(DefaultHardwareConcurrency)
    /\ pc = "start"
    /\ positions = Disjoint(MaxLong)
    /\ targetReduction = 99
    /\ vertices = <<>>
    /\ faces = <<>>
    /\ edges = <<>>
    /\ originalFaceCount = 0
    /\ targetFaceCount = 0
    /\ collapsed = 0
    /\ iteration = 0
    /\ exhausted = FALSE
    /\ result = <<>>
    /\ posted = <<>>

LongNext == Start \/ CollapseStep \/ LoopExit \/ Finish

LongSpec == LongInit /\ [][LongNext]_vars

(* the progress values of the call, in emission order *)
ProgressValues ==
    LET sent == SelectSeq(posted, LAMBDA m : m.type = "progress")
    IN  [i \in 1..Len(sent) |-> sent[i].progress]

(* a <= b for two fractions <<numerator, denominator>> *)
NotAbove(a, b) == a[1] * b[2] <= b[1] * a[2]

(* C27: the progress values of one simplify call never decrease in        *)
(* emission order: they start at 0.05, and when the call has left the     *)
(* loop the last one is 0.95; this includes the two messages of a         *)
(* collapse whose count is a multiple of 100.                             *)
C27_ProgressNonDecreasing ==
    /\ ProgressValues # <<>> => ProgressValues[1] = <<5, 100>>
    /\ \A i \in 1..(Len(ProgressValues) - 1) :
            NotAbove(ProgressValues[i], ProgressValues[i + 1])
    /\ pc = "done" /\ ProgressValues # <<>> =>
            ProgressValues[Len(ProgressValues)] = <<95, 100>>

-----------------------------------------------------------------------------
(* The page when every started attempt ends.  An attempt under way has   *)
(* its timer pending (lines 104-106), and each of the four ways it ends  *)
(* takes that timer away: clearTimeout in handleTaskSuccess and          *)
(* handleTaskFailure, or the timer firing.  Seen through timers alone,   *)
(* the end of an attempt is a step that changes the set of pending       *)
(* timers, possible exactly while a timer is pending.                    *)
AttemptEnds ==
    /\ timers # {}
    /\ timers' \in SUBSET ((1..Len(tasks)) \X (1..(wm.nextWorkerId + wm.maxWorkers)))

FairHostSpec == HostSpec /\ WF_timers(AttemptEnds)

Submitted(t) == t <= Len(tasks)

Settled(t) == Submitted(t) /\ tasks[t].promise # "pending"

(* C28: every task passed to executeTask eventually has its promise      *)
(* resolved or rejected, when every started attempt eventually ends with *)
(* a 'complete' message, an 'error' message, an error event or a timeout *)
C28_EveryTaskSettled ==
    \A t \in 1..MaxTasks : Submitted(t) ~> Settled(t)

(* processQueue takes task t from the queue in this step: every task    *)
(* taken is started at once (lines 75-76)                               *)
TakenFromQueue(t) ==
    /\ t <= Len(tasks')
    /\ tasks'[t].starts > (IF t <= Len(tasks) THEN tasks[t].starts ELSE 0)

(* C29: queued tasks are started in priority order: when processQueue   *)
(* takes a task, no task that stays in the queue has a strictly higher  *)
(* priority, also when a task put back for a retry is in the queue      *)
C29_TakenInPriorityOrder ==
    [][\A t \in 1..MaxTasks : TakenFromQueue(t) =>
            \A k \in 1..Len(wm'.taskQueue) :
                tasks'[wm'.taskQueue[k]].priority <= tasks'[t].priority]_vars

(* the entries of the pool marked busy *)
BusyWorkers == {i \in 1..Len(wm.workers) : wm.workers[i].busy}

(* C30: stats.activeWorkers is the number of pool workers marked busy,  *)
(* is never negative and never exceeds maxWorkers                       *)
C30_ActiveWorkersCountsBusy ==
    /\ wm.activeWorkers = Cardinality(BusyWorkers)
    /\ wm.activeWorkers >= 0
    /\ wm.activeWorkers <= wm.maxWorkers

=============================================================================
